---- MODULE Spec2Model ----
(***************************************************************************)
(* Model of the webhook receiver of kook.go (src/kook/message.go, the      *)
(* WebhookHandler part, lines 571-838): HandleRequest's pipeline           *)
(* (method check, transport decoding, decryption, envelope parse,          *)
(* handleMessage, handleEvent) and the handler registry with its RWMutex.  *)
(*                                                                         *)
(* Every HTTP request is one task, every dispatched handler is one task    *)
(* (a goroutine), and OnEvent may be called by the application or from a   *)
(* running handler.                                                        *)
(***************************************************************************)
EXTENDS Integers, Sequences, FiniteSets, TLC

(***************************************************************************)
(* Bounds of the model.                                                    *)
(***************************************************************************)
\* number of requests of the concurrent specification
NumReq == 2
\* total number of OnEvent calls in one behaviour
MaxReg == 2

Reqs == 1..NumReq

\* the handler functions the application may register
Handlers == {"h1", "h2"}
\* event types carried by events and used in registrations
EventTypes == {5, 6}

(***************************************************************************)
(* Strings whose characters the code inspects are sequences of characters. *)
(***************************************************************************)
UpperChars ==
    <<"A","B","C","D","E","F","G","H","I","J","K","L","M",
      "N","O","P","Q","R","S","T","U","V","W","X","Y","Z">>
LowerChars ==
    <<"a","b","c","d","e","f","g","h","i","j","k","l","m",
      "n","o","p","q","r","s","t","u","v","w","x","y","z">>

ToLowerChar(c) ==
    IF \E i \in 1..26 : UpperChars[i] = c
    THEN LowerChars[CHOOSE i \in 1..26 : UpperChars[i] = c]
    ELSE c

\* strings.ToLower
ToLower(str) == [i \in 1..Len(str) |-> ToLowerChar(str[i])]

IsSpace(c) == c \in {" ", "\t"}

RECURSIVE TrimLeft(_)
TrimLeft(str) ==
    IF str # <<>> /\ IsSpace(Head(str)) THEN TrimLeft(Tail(str)) ELSE str

RECURSIVE TrimRight(_)
TrimRight(str) ==
    IF str # <<>> /\ IsSpace(str[Len(str)])
    THEN TrimRight(SubSeq(str, 1, Len(str) - 1))
    ELSE str

\* strings.TrimSpace
TrimSpace(str) == TrimRight(TrimLeft(str))

\* strings.EqualFold on the ASCII strings of the model
EqualFold(a, b) == ToLower(a) = ToLower(b)

\* Content-Encoding values
EncEmpty == <<>>
EncIdentity == <<"i","d","e","n","t","i","t","y">>
EncGzip == <<"g","z","i","p">>
EncGzipUpper == <<"G","Z","I","P">>
EncGzipPadded == <<" ","g","z","i","p"," ">>
EncDeflate == <<"d","e","f","l","a","t","e">>
EncBr == <<"b","r">>
EncIdentityMixed == <<"I","d","e","n","t","i","t","y">>
EncDeflateTab == <<"d","e","f","l","a","t","e","\t">>
EncBlank == <<" ">>
EncGzipSplit == <<"g","z"," ","i","p">>

\* channel_type values
WEBHOOK_CHALLENGE ==
    <<"W","E","B","H","O","O","K","_","C","H","A","L","L","E","N","G","E">>
ChallengeLower ==
    <<"w","e","b","h","o","o","k","_","c","h","a","l","l","e","n","g","e">>
ChannelGroup == <<"G","R","O","U","P">>
ChannelNone == <<>>

\* the signal kind of an event (declared outside message.go)
SignalEvent == 0

(***************************************************************************)
(* Request bodies.  A body is a term that records what the bytes are:      *)
(* its compression framing, whether it is JSON, and the fields the code    *)
(* reads (encrypt, s, d and the fields of d).                              *)
(***************************************************************************)
NoD == [kind |-> "absent", channel_type |-> ChannelNone, verify_token |-> "",
        challenge |-> "", typeOK |-> TRUE, type |-> 0]

\* "d" missing, "d": null, "d": "text", "d": {"verify_token": 5}
DAbsent == NoD
DNull == [NoD EXCEPT !.kind = "null"]
DNonObject == [NoD EXCEPT !.kind = "nonobject"]
DBadField == [NoD EXCEPT !.kind = "badfield"]

DObject(ct, vt, ch, tok, ty) ==
    [kind |-> "object", channel_type |-> ct, verify_token |-> vt,
     challenge |-> ch, typeOK |-> tok, type |-> ty]

ChannelTypes == {WEBHOOK_CHALLENGE, ChallengeLower, ChannelGroup, ChannelNone}
Tokens == {"", "t1", "t2"}
Challenges == {"", "abc123"}

DObjects ==
    {DObject(ct, vt, ch, TRUE, ty) :
        ct \in ChannelTypes, vt \in Tokens, ch \in Challenges, ty \in EventTypes}
    \cup
    {DObject(ct, vt, ch, FALSE, 0) :
        ct \in ChannelTypes, vt \in Tokens, ch \in Challenges}

DTerms == {DAbsent, DNull, DNonObject, DBadField} \cup DObjects

\* what a JSON text holds of the fields s and d
NoPlain == [json |-> "garbage", sKind |-> "absent", s |-> 0, d |-> NoD]

\* not JSON; a JSON array; the JSON null
GarbagePlain == NoPlain
ScalarPlain == [NoPlain EXCEPT !.json = "scalar"]
NullPlain == [NoPlain EXCEPT !.json = "null"]
\* {"s": s, "d": d}
EnvelopePlain(s, d) == [json |-> "object", sKind |-> "int", s |-> s, d |-> d]
\* {"s": "x", "d": d}
EnvelopeBadS(d) == [json |-> "object", sKind |-> "nonint", s |-> 0, d |-> d]

SignalKinds == {SignalEvent, 1}

AGroupEvent == DObject(ChannelGroup, "t1", "", TRUE, 5)

Plains ==
    {GarbagePlain, ScalarPlain, NullPlain, EnvelopeBadS(AGroupEvent)}
    \cup {EnvelopePlain(s, d) : s \in SignalKinds, d \in DTerms}

(***************************************************************************)
(* Keys are byte sequences.  decryptWebhookPayload brings the configured   *)
(* key to KeySize bytes.                                                   *)
(***************************************************************************)
KeySize == 32

NoKey == <<>>
KeyA == <<1, 2, 3>>
KeyB == <<7>>

\* a normalization that pads a short key on the left
NormalizeKeyPaddingLeft(keyBytes) ==
    IF Len(keyBytes) < KeySize
    THEN [i \in 1..(KeySize - Len(keyBytes)) |-> 0] \o keyBytes
    ELSE IF Len(keyBytes) > KeySize
         THEN SubSeq(keyBytes, 1, KeySize)
         ELSE keyBytes

NormalizeKey(keyBytes) ==
    IF Len(keyBytes) < KeySize
    THEN keyBytes \o [i \in 1..(KeySize - Len(keyBytes)) |-> 0]
    ELSE IF Len(keyBytes) > KeySize
         THEN SubSeq(keyBytes, 1, KeySize)
         ELSE keyBytes

(***************************************************************************)
(* The value of "encrypt": base64(iv ++ base64(AES-CBC(key, padded))).     *)
(* The term records what each check of decryptWebhookPayload finds:        *)
(*   outerB64  the outer text is base64                                    *)
(*   long      the decoded payload is longer than one block                *)
(*   innerB64  the text after the iv is base64                             *)
(*   aligned   the ciphertext is a whole number of blocks                  *)
(*   key       the 32-byte key the sender encrypted with                   *)
(*   padOK     the sender's plaintext ends in valid PKCS7 padding          *)
(*   strayPad  under another key the result happens to end in valid        *)
(*             padding (its content is then not JSON)                      *)
(*   plain     the sender's plaintext                                      *)
(***************************************************************************)
NoCipher == [outerB64 |-> TRUE, long |-> TRUE, innerB64 |-> TRUE, aligned |-> TRUE,
             key |-> NormalizeKey(KeyA), padOK |-> TRUE, strayPad |-> FALSE,
             plain |-> NoPlain]

Encrypted(k, p) == [NoCipher EXCEPT !.key = NormalizeKey(k), !.plain = p]

AChallenge == DObject(WEBHOOK_CHALLENGE, "t1", "abc123", TRUE, 5)

CipherPlains == {EnvelopePlain(SignalEvent, AGroupEvent),
                 EnvelopePlain(SignalEvent, AChallenge), GarbagePlain}

Ciphers ==
    {Encrypted(k, p) : k \in {KeyA, KeyB}, p \in CipherPlains}
    \cup {[Encrypted(KeyA, EnvelopePlain(SignalEvent, AGroupEvent)) EXCEPT !.outerB64 = FALSE],
          [Encrypted(KeyA, EnvelopePlain(SignalEvent, AGroupEvent)) EXCEPT !.long = FALSE],
          [Encrypted(KeyA, EnvelopePlain(SignalEvent, AGroupEvent)) EXCEPT !.innerB64 = FALSE],
          [Encrypted(KeyA, EnvelopePlain(SignalEvent, AGroupEvent)) EXCEPT !.aligned = FALSE],
          [Encrypted(KeyA, EnvelopePlain(SignalEvent, AGroupEvent)) EXCEPT !.padOK = FALSE],
          [Encrypted(KeyB, EnvelopePlain(SignalEvent, AGroupEvent)) EXCEPT !.strayPad = TRUE]}

(***************************************************************************)
(* A body: its compression framing, its "encrypt" field and its s and d.   *)
(*   frame    "raw", "gzip", "zlib" or "corrupt" (a broken gzip stream)    *)
(*   encKind  "absent", "empty", "nonstring" or "cipher"                   *)
(***************************************************************************)
Body(frame, encKind, cipher, text) ==
    [frame |-> frame, encKind |-> encKind, cipher |-> cipher, text |-> text]

PlainBody(text) == Body("raw", "absent", NoCipher, text)

NoBody == PlainBody(NoPlain)

Frames == {"raw", "gzip", "zlib", "corrupt"}
Encodings == {EncEmpty, EncIdentity, EncGzip, EncGzipUpper, EncGzipPadded,
              EncDeflate, EncBr, EncIdentityMixed, EncDeflateTab, EncBlank,
              EncGzipSplit}

\* a value with Go's error result
Ok(v) == [err |-> FALSE, v |-> v]
Fail(v) == [err |-> TRUE, v |-> v]
\* (nil, err) of the functions that return bytes: which error, and the value
\* its message names
Error(why, arg) == [err |-> TRUE, v |-> NoBody, why |-> why, arg |-> arg]

\* a decodeRequestBody that compares the header value as it is
decodeRequestBodyExact(body, encoding) ==
    CASE encoding \in {EncEmpty, EncIdentity} -> Ok(body)
      [] encoding = EncGzip ->
            IF body.frame = "gzip" THEN Ok([body EXCEPT !.frame = "raw"])
            ELSE Error("gzip", <<>>)
      [] encoding = EncDeflate ->
            IF body.frame = "zlib" THEN Ok([body EXCEPT !.frame = "raw"])
            ELSE Error("zlib", <<>>)
      [] OTHER -> Error("unsupported", encoding)

\* decodeRequestBody
decodeRequestBody(body, encoding) ==
    LET e == ToLower(TrimSpace(encoding)) IN
    CASE e \in {EncEmpty, EncIdentity} -> Ok(body)
      [] e = EncGzip ->
            IF body.frame = "gzip" THEN Ok([body EXCEPT !.frame = "raw"])
            ELSE Error("gzip", <<>>)
      [] e = EncDeflate ->
            IF body.frame = "zlib" THEN Ok([body EXCEPT !.frame = "raw"])
            ELSE Error("zlib", <<>>)
      [] OTHER -> Error("unsupported", encoding)

\* a decryptWebhookPayload that looks at the key only when it needs it
decryptWebhookPayloadKeyLate(encrypted, encryptKey) ==
    IF ~encrypted.outerB64 THEN Error("outerbase64", <<>>)
    ELSE IF ~encrypted.long THEN Error("length", <<>>)
    ELSE IF ~encrypted.innerB64 THEN Error("innerbase64", <<>>)
    ELSE IF ~encrypted.aligned THEN Error("alignment", <<>>)
    ELSE IF encryptKey = NoKey THEN Error("missingkey", <<>>)
    ELSE IF NormalizeKey(encryptKey) = encrypted.key
         THEN IF encrypted.padOK THEN Ok(PlainBody(encrypted.plain))
              ELSE Error("padding", <<>>)
         ELSE IF encrypted.strayPad THEN Ok(PlainBody(GarbagePlain))
              ELSE Error("padding", <<>>)

\* a decryptWebhookPayload that drops an incomplete last block of the
\* ciphertext and decrypts the rest
decryptWebhookPayloadTruncating(encrypted, encryptKey) ==
    IF encryptKey = NoKey THEN Error("missingkey", <<>>)
    ELSE IF ~encrypted.outerB64 THEN Error("outerbase64", <<>>)
    ELSE IF ~encrypted.long THEN Error("length", <<>>)
    ELSE IF ~encrypted.innerB64 THEN Error("innerbase64", <<>>)
    ELSE IF NormalizeKey(encryptKey) = encrypted.key
         THEN IF encrypted.padOK THEN Ok(PlainBody(encrypted.plain))
              ELSE Error("padding", <<>>)
         ELSE IF encrypted.strayPad THEN Ok(PlainBody(GarbagePlain))
              ELSE Error("padding", <<>>)

\* decryptWebhookPayload
decryptWebhookPayload(encrypted, encryptKey) ==
    IF encryptKey = NoKey THEN Error("missingkey", <<>>)
    ELSE IF ~encrypted.outerB64 THEN Error("outerbase64", <<>>)
    ELSE IF ~encrypted.long THEN Error("length", <<>>)
    ELSE IF ~encrypted.innerB64 THEN Error("innerbase64", <<>>)
    ELSE IF ~encrypted.aligned THEN Error("alignment", <<>>)
    ELSE IF NormalizeKey(encryptKey) = encrypted.key
         THEN IF encrypted.padOK THEN Ok(PlainBody(encrypted.plain))
              ELSE Error("padding", <<>>)
         ELSE IF encrypted.strayPad THEN Ok(PlainBody(GarbagePlain))
              ELSE Error("padding", <<>>)

\* json.Unmarshal(body, &encrypted) succeeds
IsEncryptionEnvelope(body) ==
    /\ body.frame = "raw"
    /\ body.text.json \in {"null", "object"}
    /\ body.encKind # "nonstring"

\* a tryDecryptBody that insists on an envelope once a key is configured
tryDecryptBodyStrict(body, encryptKey) ==
    IF ~IsEncryptionEnvelope(body) \/ body.encKind # "cipher"
    THEN IF encryptKey = NoKey THEN Ok(body) ELSE Error("plaintext", <<>>)
    ELSE decryptWebhookPayload(body.cipher, encryptKey)

\* tryDecryptBody
tryDecryptBody(body, encryptKey) ==
    IF ~IsEncryptionEnvelope(body) THEN Ok(body)
    ELSE IF body.encKind # "cipher" THEN Ok(body)
    ELSE decryptWebhookPayload(body.cipher, encryptKey)

\* json.Unmarshal(body, &msg) for WebhookMessage{S, D}
NoMsg == [S |-> 0, D |-> NoD]

ParseEnvelope(body) ==
    IF body.frame # "raw" \/ body.text.json \in {"garbage", "scalar"} THEN Fail(NoMsg)
    ELSE IF body.text.json = "null" THEN Ok(NoMsg)
    ELSE IF body.text.sKind = "nonint" THEN Fail(NoMsg)
    ELSE IF body.text.sKind = "absent" THEN Ok([S |-> 0, D |-> body.text.d])
    ELSE Ok([S |-> body.text.s, D |-> body.text.d])

\* json.Unmarshal(msg.D, &meta) for webhookPayloadMeta
NoMeta == [ChannelType |-> ChannelNone, VerifyToken |-> "", Challenge |-> ""]

ParseMeta(d) ==
    CASE d.kind \in {"absent", "nonobject", "badfield"} -> Fail(NoMeta)
      [] d.kind = "null" -> Ok(NoMeta)
      [] OTHER -> Ok([ChannelType |-> d.channel_type, VerifyToken |-> d.verify_token,
                      Challenge |-> d.challenge])

\* json.Unmarshal(msg.D, &event): the event's Type
ParseEvent(d) ==
    CASE d.kind \in {"absent", "nonobject"} -> Fail(0)
      [] d.kind = "null" -> Ok(0)
      [] OTHER -> IF d.typeOK THEN Ok(d.type) ELSE Fail(0)

\* a token check that lets a request without verify_token pass
TokenMismatchUnlessAbsent(meta, token) ==
    token # "" /\ meta.VerifyToken # "" /\ meta.VerifyToken # token

\* a token check that compares also when no token is configured
TokenMismatchAlways(meta, token) == meta.VerifyToken # token

\* wh.verifyToken != "" && meta.VerifyToken != wh.verifyToken
TokenMismatch(meta, token) == token # "" /\ meta.VerifyToken # token

\* a challenge test that is content with either of the two fields
IsChallengeEitherField(meta) ==
    EqualFold(meta.ChannelType, WEBHOOK_CHALLENGE) \/ meta.Challenge # ""

\* strings.EqualFold(meta.ChannelType, "WEBHOOK_CHALLENGE") && meta.Challenge != ""
IsChallenge(meta) == EqualFold(meta.ChannelType, WEBHOOK_CHALLENGE) /\ meta.Challenge # ""

(***************************************************************************)
(* handleMessage up to the call of handleEvent, and handleEvent's parse:   *)
(* what the request does next.                                             *)
(*   "ignored"    not an event signal: ("", nil)                           *)
(*   "metaerr"    d is no metadata: error                                  *)
(*   "tokenerr"   verify_token mismatch: error                             *)
(*   "challenge"  (meta.Challenge, nil)                                    *)
(*   "eventerr"   handleEvent cannot parse d: error                        *)
(*   "event"      handleEvent goes on to snapshot and dispatch             *)
(***************************************************************************)
Outcome(kind, challenge, type) == [kind |-> kind, challenge |-> challenge, type |-> type]

\* a handleMessage that answers a challenge before it compares the token
handleMessageChallengeFirst(msg, token) ==
    IF msg.S # SignalEvent THEN Outcome("ignored", "", 0)
    ELSE IF ParseMeta(msg.D).err THEN Outcome("metaerr", "", 0)
    ELSE IF IsChallenge(ParseMeta(msg.D).v)
         THEN Outcome("challenge", ParseMeta(msg.D).v.Challenge, 0)
    ELSE IF TokenMismatch(ParseMeta(msg.D).v, token) THEN Outcome("tokenerr", "", 0)
    ELSE IF ParseEvent(msg.D).err THEN Outcome("eventerr", "", 0)
    ELSE Outcome("event", "", ParseEvent(msg.D).v)

\* a handleMessage that looks at the signal kind only after the token
handleMessageSignalLate(msg, token) ==
    IF ParseMeta(msg.D).err THEN Outcome("metaerr", "", 0)
    ELSE IF TokenMismatch(ParseMeta(msg.D).v, token) THEN Outcome("tokenerr", "", 0)
    ELSE IF msg.S # SignalEvent THEN Outcome("ignored", "", 0)
    ELSE IF IsChallenge(ParseMeta(msg.D).v)
         THEN Outcome("challenge", ParseMeta(msg.D).v.Challenge, 0)
    ELSE IF ParseEvent(msg.D).err THEN Outcome("eventerr", "", 0)
    ELSE Outcome("event", "", ParseEvent(msg.D).v)

\* a handleMessage that hands a challenge request on to handleEvent as well
handleMessageDispatchingChallenge(msg, token) ==
    IF msg.S # SignalEvent THEN Outcome("ignored", "", 0)
    ELSE IF ParseMeta(msg.D).err THEN Outcome("metaerr", "", 0)
    ELSE IF TokenMismatch(ParseMeta(msg.D).v, token) THEN Outcome("tokenerr", "", 0)
    ELSE IF IsChallenge(ParseMeta(msg.D).v) /\ ParseEvent(msg.D).err
         THEN Outcome("challenge", ParseMeta(msg.D).v.Challenge, 0)
    ELSE IF ParseEvent(msg.D).err THEN Outcome("eventerr", "", 0)
    ELSE Outcome("event", ParseMeta(msg.D).v.Challenge, ParseEvent(msg.D).v)

handleMessage(msg, token) ==
    IF msg.S # SignalEvent THEN Outcome("ignored", "", 0)
    ELSE IF ParseMeta(msg.D).err THEN Outcome("metaerr", "", 0)
    ELSE IF TokenMismatch(ParseMeta(msg.D).v, token) THEN Outcome("tokenerr", "", 0)
    ELSE IF IsChallenge(ParseMeta(msg.D).v)
         THEN Outcome("challenge", ParseMeta(msg.D).v.Challenge, 0)
    ELSE IF ParseEvent(msg.D).err THEN Outcome("eventerr", "", 0)
    ELSE Outcome("event", "", ParseEvent(msg.D).v)

(***************************************************************************)
(* HTTP requests and responses.                                            *)
(***************************************************************************)
Request(method, readOK, encoding, body) ==
    [method |-> method, readOK |-> readOK, encoding |-> encoding, body |-> body]

NoRequest == Request("POST", TRUE, EncEmpty, NoBody)

Response(status, kind, challenge) ==
    [status |-> status, kind |-> kind, challenge |-> challenge]

NoResponse == Response(0, "none", "")
\* http.Error(w, ..., status)
ErrorResponse(status) == Response(status, "error", "")
\* {"challenge": challenge}
ChallengeResponse(challenge) == Response(200, "challenge", challenge)
\* {"code":0}
GenericResponse == Response(200, "code0", "")

\* lines 676-682
SuccessResponse(challenge) ==
    IF challenge # "" THEN ChallengeResponse(challenge) ELSE GenericResponse

\* the requests of the pipeline specification
PlainRequests == {Request("POST", TRUE, EncEmpty, PlainBody(t)) : t \in Plains}

TransportRequests ==
    {Request("POST", TRUE, e, Body(f, "absent", NoCipher,
                                   EnvelopePlain(SignalEvent, AGroupEvent))) :
        e \in Encodings, f \in Frames}

EncryptedRequests ==
    {Request("POST", TRUE, EncEmpty,
             Body("raw", "cipher", c, [NoPlain EXCEPT !.json = "object"])) :
        c \in Ciphers}
    \cup
    {Request("POST", TRUE, EncEmpty,
             Body("raw", k, NoCipher, EnvelopePlain(SignalEvent, AGroupEvent))) :
        k \in {"empty", "nonstring"}}

OtherRequests ==
    {Request("GET", TRUE, EncEmpty, PlainBody(EnvelopePlain(SignalEvent, AGroupEvent))),
     Request("GET", TRUE, EncEmpty, PlainBody(EnvelopePlain(SignalEvent, AChallenge))),
     Request("GET", FALSE, EncEmpty, PlainBody(EnvelopePlain(SignalEvent, AGroupEvent))),
     Request("PUT", TRUE, EncGzip, Body("gzip", "absent", NoCipher,
                                        EnvelopePlain(SignalEvent, AGroupEvent))),
     Request("POST", FALSE, EncEmpty, PlainBody(EnvelopePlain(SignalEvent, AGroupEvent)))}

AllRequests == PlainRequests \cup TransportRequests \cup EncryptedRequests \cup OtherRequests

\* the requests of the concurrent specification: events of both types
EventRequests ==
    {Request("POST", TRUE, EncEmpty,
             PlainBody(EnvelopePlain(SignalEvent, DObject(ChannelGroup, "t1", "", TRUE, ty)))) :
        ty \in EventTypes}

(***************************************************************************)
(* The handler registry: a Go map from event type to a slice of handlers.  *)
(***************************************************************************)
EmptyRegistry == [t \in {} |-> <<>>]

\* wh.eventHandlers[eventType], nil for a missing key
Get(m, eventType) == IF eventType \in DOMAIN m THEN m[eventType] ELSE <<>>

\* an OnEvent that puts the new handler in front of the list
AppendHandlerInFront(m, eventType, handler) ==
    [t \in DOMAIN m \cup {eventType} |->
        IF t = eventType THEN <<handler>> \o Get(m, eventType) ELSE m[t]]

\* an OnEvent that replaces the list of the type by the new handler
AppendHandlerReplacing(m, eventType, handler) ==
    [t \in DOMAIN m \cup {eventType} |->
        IF t = eventType THEN <<handler>> ELSE m[t]]

\* wh.eventHandlers[eventType] = append(wh.eventHandlers[eventType], handler)
AppendHandler(m, eventType, handler) ==
    [t \in DOMAIN m \cup {eventType} |->
        IF t = eventType THEN Append(Get(m, eventType), handler) ELSE m[t]]

\* append([]EventHandler(nil), wh.eventHandlers[event.Type]...)
SnapshotHandlers(m, eventType) == Get(m, eventType)

VARIABLES
    verifyToken,    \* wh.verifyToken
    encryptKey,     \* wh.encryptKey
    eventHandlers,  \* wh.eventHandlers
    mu,             \* wh.mu: [writer, readers]
    pending,        \* the arguments of the OnEvent call that holds the lock
    regLog,         \* history: the completed OnEvent calls, in order
    pc,             \* per request: where HandleRequest is
    req,            \* per request: the request received
    body,           \* per request: the local variable body
    msg,            \* per request: the local variable msg
    out,            \* per request: what handleMessage decided
    snap,           \* per request: the local variable handlers
    snapAt,         \* history: Len(regLog) when the request took the read lock
    tasks,          \* per request: the goroutines it spawned
    resp,           \* per request: the response written
    logged,         \* per request: the error HandleRequest logged
    alive,          \* the process has not died of a panic
    call,           \* a direct call of one of the package's functions
    ret             \* what that call returned

reqVars == <<pc, req, body, msg, out, logged, snap, snapAt, resp, logged>>
regVars == <<eventHandlers, mu, pending, regLog>>
cfgVars == <<verifyToken, encryptKey>>
fnVars == <<call, ret>>
vars == <<verifyToken, encryptKey, eventHandlers, mu, pending, regLog,
          pc, req, body, msg, out, logged, snap, snapAt, tasks, resp, logged, alive,
          call, ret>>

NoPending == [eventType |-> 0, handler |-> "h1"]
\* logger.WithError(err).Error(...): the stage that failed and its error
Logged(stage, why, arg) == [stage |-> stage, why |-> why, arg |-> arg]
NoLog == Logged("", "", <<>>)
NoCall == [fn |-> "none"]
NoReturn == [done |-> FALSE]
NoOutcome == Outcome("none", "", 0)
Unlocked == [writer |-> "none", readers |-> {}]

\* NewWebhookHandler(client, encryptKey, verifyToken), with no request received yet
NewWebhookHandler(tokens, keys) ==
    /\ verifyToken \in tokens
    /\ encryptKey \in keys
    /\ eventHandlers = EmptyRegistry
    /\ mu = Unlocked
    /\ pending = NoPending
    /\ regLog = <<>>
    /\ pc = [r \in Reqs |-> "idle"]
    /\ req = [r \in Reqs |-> NoRequest]
    /\ body = [r \in Reqs |-> NoBody]
    /\ msg = [r \in Reqs |-> NoMsg]
    /\ out = [r \in Reqs |-> NoOutcome]
    /\ snap = [r \in Reqs |-> <<>>]
    /\ snapAt = [r \in Reqs |-> 0]
    /\ tasks = [r \in Reqs |-> <<>>]
    /\ resp = [r \in Reqs |-> NoResponse]
    /\ logged = [r \in Reqs |-> NoLog]
    /\ alive = TRUE

\* the receiver of the concurrent specification checks the token of its events
Init == NewWebhookHandler({"t1"}, {NoKey}) /\ call = NoCall /\ ret = NoReturn

\* the receivers of the pipeline specification: with and without token and key
PipelineInit ==
    NewWebhookHandler({"", "t1"}, {NoKey, KeyA}) /\ call = NoCall /\ ret = NoReturn

\* the request ends with response rs
Finish(r, rs) ==
    /\ resp' = [resp EXCEPT ![r] = rs]
    /\ pc' = [pc EXCEPT ![r] = "done"]

\* the error is logged and the request ends with http.Error(w, ..., status)
Fails(r, status, e) ==
    /\ Finish(r, ErrorResponse(status))
    /\ logged' = [logged EXCEPT ![r] = e]

(***************************************************************************)
(* HandleRequest, lines 632-683.                                           *)
(***************************************************************************)
\* a HandleRequest that reads the body before it looks at the method
StartReadingFirst(r, in) ==
    /\ alive
    /\ pc[r] = "idle"
    /\ IF r = 1 THEN TRUE ELSE pc[r - 1] # "idle"
    /\ req' = [req EXCEPT ![r] = in]
    /\ IF ~in.readOK
       THEN Fails(r, 400, Logged("read", "io", <<>>)) /\ UNCHANGED body
       ELSE IF in.method # "POST"
       THEN /\ Finish(r, ErrorResponse(405))
            /\ body' = [body EXCEPT ![r] = in.body]
            /\ UNCHANGED logged
       ELSE /\ body' = [body EXCEPT ![r] = in.body]
            /\ pc' = [pc EXCEPT ![r] = "decode"]
            /\ UNCHANGED <<resp, logged>>
    /\ UNCHANGED <<cfgVars, fnVars, regVars, msg, out, snap, snapAt, tasks, alive>>

\* lines 632-644: the method check and io.ReadAll
Start(r, in) ==
    /\ alive
    /\ pc[r] = "idle"
    /\ IF r = 1 THEN TRUE ELSE pc[r - 1] # "idle"
    /\ req' = [req EXCEPT ![r] = in]
    /\ IF in.method # "POST"
       THEN Finish(r, ErrorResponse(405)) /\ UNCHANGED <<body, logged>>
       ELSE IF ~in.readOK
       THEN Fails(r, 400, Logged("read", "io", <<>>)) /\ UNCHANGED body
       ELSE /\ body' = [body EXCEPT ![r] = in.body]
            /\ pc' = [pc EXCEPT ![r] = "decode"]
            /\ UNCHANGED <<resp, logged>>
    /\ UNCHANGED <<cfgVars, fnVars, regVars, msg, out, snap, snapAt, tasks, alive>>

\* lines 646-651
Decode(r) ==
    /\ alive
    /\ pc[r] = "decode"
    /\ LET res == decodeRequestBody(body[r], req[r].encoding) IN
       IF res.err
       THEN Fails(r, 400, Logged("decode", res.why, res.arg)) /\ UNCHANGED body
       ELSE /\ body' = [body EXCEPT ![r] = res.v]
            /\ pc' = [pc EXCEPT ![r] = "decrypt"]
            /\ UNCHANGED <<resp, logged>>
    /\ UNCHANGED <<cfgVars, fnVars, regVars, req, msg, out, snap, snapAt, tasks, alive>>

\* a HandleRequest that goes on with the body as it is when decryption fails
DecryptOrPassOn(r) ==
    /\ alive
    /\ pc[r] = "decrypt"
    /\ LET res == tryDecryptBody(body[r], encryptKey) IN
       /\ body' = [body EXCEPT ![r] = IF res.err THEN body[r] ELSE res.v]
       /\ pc' = [pc EXCEPT ![r] = "parse"]
       /\ UNCHANGED <<resp, logged>>
    /\ UNCHANGED <<cfgVars, fnVars, regVars, req, msg, out, snap, snapAt, tasks, alive>>

\* lines 653-658
Decrypt(r) ==
    /\ alive
    /\ pc[r] = "decrypt"
    /\ LET res == tryDecryptBody(body[r], encryptKey) IN
       IF res.err
       THEN Fails(r, 400, Logged("decrypt", res.why, res.arg)) /\ UNCHANGED body
       ELSE /\ body' = [body EXCEPT ![r] = res.v]
            /\ pc' = [pc EXCEPT ![r] = "parse"]
            /\ UNCHANGED <<resp, logged>>
    /\ UNCHANGED <<cfgVars, fnVars, regVars, req, msg, out, snap, snapAt, tasks, alive>>

\* lines 662-667
Parse(r) ==
    /\ alive
    /\ pc[r] = "parse"
    /\ LET res == ParseEnvelope(body[r]) IN
       IF res.err
       THEN Fails(r, 400, Logged("envelope", "json", <<>>)) /\ UNCHANGED msg
       ELSE /\ msg' = [msg EXCEPT ![r] = res.v]
            /\ pc' = [pc EXCEPT ![r] = "message"]
            /\ UNCHANGED <<resp, logged>>
    /\ UNCHANGED <<cfgVars, fnVars, regVars, req, body, out, snap, snapAt, tasks, alive>>

\* lines 669-674 with handleMessage (783-802) and the parse of handleEvent (807-812)
Message(r) ==
    /\ alive
    /\ pc[r] = "message"
    /\ LET o == handleMessage(msg[r], verifyToken) IN
       /\ out' = [out EXCEPT ![r] = o]
       /\ IF o.kind \in {"metaerr", "tokenerr", "eventerr"}
          THEN Fails(r, 401, Logged("message", o.kind, <<>>))
          ELSE /\ pc' = [pc EXCEPT ![r] = IF o.kind = "event" THEN "rlock" ELSE "respond"]
               /\ UNCHANGED <<resp, logged>>
    /\ UNCHANGED <<cfgVars, fnVars, regVars, req, body, msg, snap, snapAt, tasks, alive>>

(***************************************************************************)
(* handleEvent, lines 814-829.                                             *)
(***************************************************************************)
\* an RLock that does not wait for the writer
RLockIgnoringWriter(r) ==
    /\ alive
    /\ pc[r] = "rlock"
    /\ mu' = [mu EXCEPT !.readers = @ \cup {r}]
    /\ snapAt' = [snapAt EXCEPT ![r] = Len(regLog)]
    /\ pc' = [pc EXCEPT ![r] = "snapshot"]
    /\ UNCHANGED <<cfgVars, fnVars, eventHandlers, pending, regLog, req, body, msg, out, logged,
                   snap, tasks, resp, alive>>

\* line 814: wh.mu.RLock()
RLock(r) ==
    /\ alive
    /\ pc[r] = "rlock"
    /\ mu.writer = "none"
    /\ mu' = [mu EXCEPT !.readers = @ \cup {r}]
    /\ snapAt' = [snapAt EXCEPT ![r] = Len(regLog)]
    /\ pc' = [pc EXCEPT ![r] = "snapshot"]
    /\ UNCHANGED <<cfgVars, fnVars, eventHandlers, pending, regLog, req, body, msg, out, logged, snap,
                   tasks, resp, alive>>

\* a snapshot that does not release the read lock
SnapshotWithoutRUnlock(r) ==
    /\ alive
    /\ pc[r] = "snapshot"
    /\ snap' = [snap EXCEPT ![r] = SnapshotHandlers(eventHandlers, out[r].type)]
    /\ pc' = [pc EXCEPT ![r] = IF Len(snap'[r]) = 0 THEN "respond" ELSE "spawn"]
    /\ UNCHANGED <<cfgVars, fnVars, regVars, req, body, msg, out, logged, snapAt, tasks, resp, alive>>

\* a snapshot whose map read leaves an entry behind for a type without one
SnapshotCreatingEntry(r) ==
    /\ alive
    /\ pc[r] = "snapshot"
    /\ snap' = [snap EXCEPT ![r] = SnapshotHandlers(eventHandlers, out[r].type)]
    /\ eventHandlers' = [t \in DOMAIN eventHandlers \cup {out[r].type} |->
                             Get(eventHandlers, t)]
    /\ mu' = [mu EXCEPT !.readers = @ \ {r}]
    /\ pc' = [pc EXCEPT ![r] = IF Len(snap'[r]) = 0 THEN "respond" ELSE "spawn"]
    /\ UNCHANGED <<cfgVars, fnVars, pending, regLog, req, body, msg, out, logged, snapAt,
                   tasks, resp, alive>>

\* lines 815-816: the copy and wh.mu.RUnlock()
Snapshot(r) ==
    /\ alive
    /\ pc[r] = "snapshot"
    /\ snap' = [snap EXCEPT ![r] = SnapshotHandlers(eventHandlers, out[r].type)]
    /\ mu' = [mu EXCEPT !.readers = @ \ {r}]
    /\ pc' = [pc EXCEPT ![r] = IF Len(snap'[r]) = 0 THEN "respond" ELSE "spawn"]
    /\ UNCHANGED <<cfgVars, fnVars, eventHandlers, pending, regLog, req, body, msg, out, logged, snapAt,
                   tasks, resp, alive>>

\* a loop whose goroutines read the loop variable: they all run the last handler
SpawnSharingLoopVariable(r) ==
    /\ alive
    /\ pc[r] = "spawn"
    /\ Len(tasks[r]) < Len(snap[r])
    /\ tasks' = [tasks EXCEPT ![r] = Append(@, [idx |-> Len(snap[r]), st |-> "spawned"])]
    /\ pc' = [pc EXCEPT ![r] = IF Len(tasks'[r]) = Len(snap[r]) THEN "respond" ELSE "spawn"]
    /\ UNCHANGED <<cfgVars, fnVars, regVars, req, body, msg, out, logged, snap, snapAt, resp, alive>>

\* a loop that stops one handler early
SpawnSkippingLast(r) ==
    /\ alive
    /\ pc[r] = "spawn"
    /\ Len(tasks[r]) < Len(snap[r])
    /\ IF Len(tasks[r]) + 1 = Len(snap[r])
       THEN tasks' = tasks /\ pc' = [pc EXCEPT ![r] = "respond"]
       ELSE /\ tasks' = [tasks EXCEPT ![r] =
                            Append(@, [idx |-> Len(tasks[r]) + 1, st |-> "spawned"])]
            /\ pc' = pc
    /\ UNCHANGED <<cfgVars, fnVars, regVars, req, body, msg, out, logged, snap, snapAt, resp, alive>>

\* lines 818-827: one go statement of the loop
Spawn(r) ==
    /\ alive
    /\ pc[r] = "spawn"
    /\ Len(tasks[r]) < Len(snap[r])
    /\ tasks' = [tasks EXCEPT ![r] =
                    Append(@, [idx |-> Len(tasks[r]) + 1, st |-> "spawned"])]
    /\ pc' = [pc EXCEPT ![r] = IF Len(tasks'[r]) = Len(snap[r]) THEN "respond" ELSE "spawn"]
    /\ UNCHANGED <<cfgVars, fnVars, regVars, req, body, msg, out, logged, snap, snapAt, resp, alive>>

\* a HandleRequest that waits for the handlers before it responds
RespondAfterHandlers(r) ==
    /\ alive
    /\ pc[r] = "respond"
    /\ \A k \in 1..Len(tasks[r]) : tasks[r][k].st \in {"returned", "panicked"}
    /\ Finish(r, SuccessResponse(out[r].challenge))
    /\ UNCHANGED <<cfgVars, fnVars, regVars, req, body, msg, out, logged, snap, snapAt, tasks, alive>>

\* lines 676-683: the 200 response
Respond(r) ==
    /\ alive
    /\ pc[r] = "respond"
    /\ Finish(r, SuccessResponse(out[r].challenge))
    /\ UNCHANGED <<cfgVars, fnVars, regVars, req, body, msg, out, logged, snap, snapAt, tasks, alive>>

(***************************************************************************)
(* OnEvent, lines 625-629.  The call is two steps: taking the write lock,  *)
(* and the append with the deferred Unlock.  A call that waits for the     *)
(* lock has done nothing yet.                                              *)
(***************************************************************************)
\* OnEvent calls begun or completed: the model stops at MaxReg of them
Calling == {rk \in Reqs \X (1..MaxReg) :
                rk[2] <= Len(tasks[rk[1]]) /\ tasks[rk[1]][rk[2]].st = "calling"}

Reserved == Len(regLog) + Cardinality(Calling) + (IF mu.writer = "none" THEN 0 ELSE 1)

\* line 626: wh.mu.Lock()
Lock(who, eventType, handler) ==
    /\ mu.writer = "none"
    /\ mu.readers = {}
    /\ mu' = [mu EXCEPT !.writer = who]
    /\ pending' = [eventType |-> eventType, handler |-> handler]
    /\ UNCHANGED <<eventHandlers, regLog>>

\* lines 627-628: the append, then the deferred wh.mu.Unlock()
AppendUnlock(who) ==
    /\ mu.writer = who
    /\ eventHandlers' = AppendHandler(eventHandlers, pending.eventType, pending.handler)
    /\ regLog' = Append(regLog, pending)
    /\ mu' = [mu EXCEPT !.writer = "none"]
    /\ pending' = NoPending

\* the application calls OnEvent(eventType, handler)
AppOnEventLock(eventType, handler) ==
    /\ alive
    /\ Reserved < MaxReg
    /\ Lock("app", eventType, handler)
    /\ UNCHANGED <<cfgVars, fnVars, reqVars, tasks, alive>>

AppOnEventDone ==
    /\ alive
    /\ AppendUnlock("app")
    /\ UNCHANGED <<cfgVars, fnVars, reqVars, tasks, alive>>

(***************************************************************************)
(* The goroutine of one handler, lines 819-826.  tasks[r][k] runs the      *)
(* handler snap[r][tasks[r][k].idx].  What the handler does (return,       *)
(* panic, block, call OnEvent) is the application's code: any of them.     *)
(***************************************************************************)
IsTask(r, k, st) == k \in 1..Len(tasks[r]) /\ tasks[r][k].st = st

SetTask(r, k, st) == tasks' = [tasks EXCEPT ![r][k].st = st]

\* a dispatch that calls the handler with the registry's read lock held
InvokeHoldingRLock(r, k) ==
    /\ alive
    /\ IsTask(r, k, "spawned")
    /\ mu.writer = "none"
    /\ SetTask(r, k, "running")
    /\ mu' = [mu EXCEPT !.readers = @ \cup {r}]
    /\ UNCHANGED <<cfgVars, fnVars, eventHandlers, regLog, pending, reqVars, alive>>

\* line 825: h(&event) begins
Invoke(r, k) ==
    /\ alive
    /\ IsTask(r, k, "spawned")
    /\ SetTask(r, k, "running")
    /\ UNCHANGED <<cfgVars, fnVars, regVars, reqVars, alive>>

\* the handler returns
Return(r, k) ==
    /\ alive
    /\ IsTask(r, k, "running")
    /\ SetTask(r, k, "returned")
    /\ UNCHANGED <<cfgVars, fnVars, regVars, reqVars, alive>>

\* a goroutine without the deferred recover: the panic ends the process
PanicUnrecovered(r, k) ==
    /\ alive
    /\ IsTask(r, k, "running")
    /\ SetTask(r, k, "panicked")
    /\ alive' = FALSE
    /\ UNCHANGED <<cfgVars, fnVars, regVars, reqVars>>

\* the handler panics: lines 820-824 recover and log
Panic(r, k) ==
    /\ alive
    /\ IsTask(r, k, "running")
    /\ SetTask(r, k, "panicked")
    /\ UNCHANGED <<cfgVars, fnVars, regVars, reqVars, alive>>

\* the handler never returns
Block(r, k) ==
    /\ alive
    /\ IsTask(r, k, "running")
    /\ SetTask(r, k, "blocked")
    /\ UNCHANGED <<cfgVars, fnVars, regVars, reqVars, alive>>

\* the handler calls OnEvent and waits for the write lock
HandlerOnEventCall(r, k) ==
    /\ alive
    /\ IsTask(r, k, "running")
    /\ Reserved < MaxReg
    /\ SetTask(r, k, "calling")
    /\ UNCHANGED <<cfgVars, fnVars, regVars, reqVars, alive>>

HandlerOnEventLock(r, k, eventType, handler) ==
    /\ alive
    /\ IsTask(r, k, "calling")
    /\ Lock("task", eventType, handler)
    /\ SetTask(r, k, "registering")
    /\ UNCHANGED <<cfgVars, fnVars, reqVars, alive>>

HandlerOnEventDone(r, k) ==
    /\ alive
    /\ IsTask(r, k, "registering")
    /\ AppendUnlock("task")
    /\ SetTask(r, k, "running")
    /\ UNCHANGED <<cfgVars, fnVars, reqVars, alive>>

(***************************************************************************)
(* Specifications.                                                         *)
(***************************************************************************)
TaskIds == 1..MaxReg

RequestStep(r) ==
    \/ Decode(r)
    \/ Decrypt(r)
    \/ Parse(r)
    \/ Message(r)
    \/ RLock(r)
    \/ Snapshot(r)
    \/ Spawn(r)
    \/ Respond(r)

HandlerStep(r, k) ==
    \/ Invoke(r, k)
    \/ Return(r, k)
    \/ Panic(r, k)
    \/ Block(r, k)
    \/ HandlerOnEventCall(r, k)
    \/ \E t \in EventTypes, h \in Handlers : HandlerOnEventLock(r, k, t, h)
    \/ HandlerOnEventDone(r, k)

AppStep ==
    \/ \E t \in EventTypes, h \in Handlers : AppOnEventLock(t, h)
    \/ AppOnEventDone

\* requests arrive concurrently, with registrations and handlers running
Next ==
    \/ \E r \in Reqs, in \in EventRequests : Start(r, in)
    \/ \E r \in Reqs : RequestStep(r)
    \/ \E r \in Reqs, k \in TaskIds : HandlerStep(r, k)
    \/ AppStep

Spec == Init /\ [][Next]_vars

\* one request of any shape, with registrations and handlers running
PipelineNext ==
    \/ \E in \in AllRequests : Start(1, in)
    \/ RequestStep(1)
    \/ \E k \in TaskIds : HandlerStep(1, k)
    \/ AppStep

PipelineSpec == PipelineInit /\ [][PipelineNext]_vars

(***************************************************************************)
(* Scheduling.  The HTTP server runs every request's goroutine and the Go  *)
(* scheduler runs every goroutine that can run, so each step of            *)
(* HandleRequest and of OnEvent is taken once it stays possible, and every  *)
(* goroutine started by a go statement begins to run.  What a handler      *)
(* does, and whether it ever returns, is the application's code: no        *)
(* progress of a handler's body is assumed.                                *)
(***************************************************************************)
Fairness ==
    /\ \A r \in Reqs : WF_vars(RequestStep(r))
    /\ WF_vars(AppOnEventDone)
    /\ \A r \in Reqs, k \in TaskIds :
          WF_vars(Invoke(r, k)) /\ WF_vars(HandlerOnEventDone(r, k))

FairSpec == Spec /\ Fairness

\* wh.mu.Lock() in an OnEvent call of a handler returns once the lock is free:
\* sync.RWMutex hands the lock to a waiting writer when the readers and the
\* writer before it have released it
LockFairness ==
    \A r \in Reqs, k \in TaskIds :
        WF_vars(\E t \in EventTypes, h \in Handlers : HandlerOnEventLock(r, k, t, h))

OnEventFairSpec == FairSpec /\ LockFairness

(***************************************************************************)
(* pkcs7Unpad, lines 766-780, on byte sequences.                           *)
(***************************************************************************)
\* aes.BlockSize
BlockSize == 16

\* (nil, err) of pkcs7Unpad
UnpadError(why) == [err |-> TRUE, v |-> <<>>, why |-> why]

\* a pkcs7Unpad that trusts the final byte
pkcs7UnpadFinalByteOnly(data, blockSize) ==
    IF Len(data) = 0 \/ Len(data) % blockSize # 0 THEN UnpadError("data")
    ELSE LET pad == data[Len(data)] IN
         IF pad = 0 \/ pad > blockSize \/ pad > Len(data) THEN UnpadError("pad")
         ELSE Ok(SubSeq(data, 1, Len(data) - pad))

pkcs7Unpad(data, blockSize) ==
    IF Len(data) = 0 \/ Len(data) % blockSize # 0 THEN UnpadError("data")
    ELSE LET pad == data[Len(data)] IN
         IF pad = 0 \/ pad > blockSize \/ pad > Len(data) THEN UnpadError("pad")
         ELSE IF \E i \in (Len(data) - pad + 1)..Len(data) : data[i] # pad
              THEN UnpadError("padbyte")
         ELSE Ok(SubSeq(data, 1, Len(data) - pad))

\* the longest buffer, in blocks
MaxBlocks == 2

\* buffer lengths: whole blocks, and lengths pkcs7Unpad refuses
UnpadLens == {k * BlockSize : k \in 0..MaxBlocks} \cup {BlockSize - 1, BlockSize + 1}

\* final bytes: around 0, the block size, the buffer length and the largest byte
PadBytes == {0, 1, 2, BlockSize - 1, BlockSize, BlockSize + 1,
             MaxBlocks * BlockSize, MaxBlocks * BlockSize + 1, 255}

\* a buffer of n bytes that ends in p bytes p (as many as fit) after bytes f,
\* with byte x written over position dev (no position when dev = 0)
Buffer(n, p, f, dev, x) ==
    [i \in 1..n |-> IF i = dev THEN x
                    ELSE IF i > n - p THEN p
                    ELSE f]

UnpadInputs ==
    {Buffer(n, p, f, dev, x) :
        n \in UnpadLens, p \in PadBytes, f \in {1, 65},
        dev \in 0..(MaxBlocks * BlockSize), x \in {0, 2, BlockSize}}

\* a program calls pkcs7Unpad(data, aes.BlockSize), as line 759 does
UnpadInit ==
    /\ NewWebhookHandler({""}, {NoKey})
    /\ call \in {[fn |-> "pkcs7Unpad", data |-> d, blockSize |-> BlockSize] :
                    d \in UnpadInputs}
    /\ ret = NoReturn

\* the call returns
Unpad ==
    /\ call.fn = "pkcs7Unpad"
    /\ ~ret.done
    /\ ret' = [done |-> TRUE, res |-> pkcs7Unpad(call.data, call.blockSize)]
    /\ UNCHANGED <<cfgVars, regVars, reqVars, tasks, alive, call>>

UnpadSpec == UnpadInit /\ [][Unpad]_vars

(***************************************************************************)
(* decryptWebhookPayload, lines 719-764, called with keys of many lengths. *)
(***************************************************************************)
\* the longest key, in bytes
MaxKeyLen == 40

\* the key of n bytes 1, 2, ..., n
KeyOfLen(n) == [i \in 1..n |-> i]

\* keys of every kind of length, keys that end in zero bytes, keys that
\* differ only after byte 32, and no key
DecryptKeys ==
    {KeyOfLen(n) : n \in {0, 1, 10, KeySize - 1, KeySize, KeySize + 1, MaxKeyLen}}
    \cup {KeyOfLen(10) \o [i \in 1..n |-> 0] : n \in {1, KeySize - 10, MaxKeyLen - 10}}
    \cup {[i \in 1..KeySize |-> 0], KeyOfLen(KeySize) \o <<0>>, KeyA, KeyB}

\* payloads under KeyA with every combination of the defects that lines
\* 733-749 look for, with good and with bad padding
Defective ==
    {[Encrypted(KeyA, EnvelopePlain(SignalEvent, AGroupEvent))
         EXCEPT !.outerB64 = f[1], !.long = f[2], !.innerB64 = f[3], !.aligned = f[4],
                !.padOK = f[5]] :
        f \in [1..5 -> BOOLEAN]}

\* payloads encrypted under each of the keys, and the malformed ones
DecryptPayloads ==
    {Encrypted(k, EnvelopePlain(SignalEvent, AGroupEvent)) : k \in DecryptKeys \ {NoKey}}
    \cup Ciphers
    \cup Defective

\* a program calls decryptWebhookPayload(encrypted, encryptKey), as line 716 does
DecryptInit ==
    /\ NewWebhookHandler({""}, {NoKey})
    /\ call \in {[fn |-> "decryptWebhookPayload", encrypted |-> c, encryptKey |-> k] :
                    c \in DecryptPayloads, k \in DecryptKeys}
    /\ ret = NoReturn

\* the call returns; keyBytes is the local variable after line 731, empty when
\* the call returned before
DecryptCall ==
    /\ call.fn = "decryptWebhookPayload"
    /\ ~ret.done
    /\ ret' = [done |-> TRUE,
               res |-> decryptWebhookPayload(call.encrypted, call.encryptKey),
               keyBytes |-> IF call.encryptKey = NoKey THEN <<>>
                            ELSE NormalizeKey(call.encryptKey)]
    /\ UNCHANGED <<cfgVars, regVars, reqVars, tasks, alive, call>>

DecryptSpec == DecryptInit /\ [][DecryptCall]_vars

(***************************************************************************)
(* Properties of the request pipeline (PipelineSpec).                      *)
(***************************************************************************)
\* handleMessage has run for request r
Classified(r) == out[r].kind # "none"

\* the envelope of request r is an event signal
IsEventSignal(r) == Classified(r) /\ msg[r].S = SignalEvent

\* d of request r parsed as metadata
HasMeta(r) == msg[r].D.kind \in {"object", "null"}

\* request r is an event signal whose d is a challenge: channel_type is
\* WEBHOOK_CHALLENGE in any letter case and challenge is not empty
CarriesChallenge(r) ==
    /\ IsEventSignal(r)
    /\ msg[r].D.kind = "object"
    /\ msg[r].D.channel_type \in {WEBHOOK_CHALLENGE, ChallengeLower}
    /\ msg[r].D.challenge # ""

\* the verify_token of request r is the configured one, or none is configured
TokenAccepted(r) == verifyToken = "" \/ msg[r].D.verify_token = verifyToken

\* no handler was dispatched for request r
NoDispatch(r) == tasks[r] = <<>> /\ snap[r] = <<>>

C2_MismatchIs401NoDispatch ==
    \A r \in Reqs :
        (/\ IsEventSignal(r)
         /\ HasMeta(r)
         /\ verifyToken # ""
         /\ msg[r].D.verify_token # verifyToken)
            => /\ pc[r] = "done"
               /\ resp[r] = ErrorResponse(401)
               /\ NoDispatch(r)

\* C2's case: the token is absent and a handler is registered for the event's type
C2_Witness ==
    \E r \in Reqs :
        /\ IsEventSignal(r)
        /\ msg[r].D.kind = "object"
        /\ msg[r].D.typeOK
        /\ msg[r].D.channel_type = ChannelGroup
        /\ verifyToken = "t1"
        /\ msg[r].D.verify_token = ""
        /\ Get(eventHandlers, msg[r].D.type) # <<>>
        /\ resp[r].status = 401

\* the stage at which the finished request r failed before its classification
\* was complete, "" if it did not
EarlyFailure(r) ==
    LET decoded == decodeRequestBody(req[r].body, req[r].encoding)
        decrypted == tryDecryptBody(decoded.v, encryptKey)
        envelope == ParseEnvelope(decrypted.v)
    IN  IF pc[r] # "done" \/ req[r].method # "POST" THEN ""
        ELSE IF ~req[r].readOK THEN "read"
        ELSE IF decoded.err THEN "decode"
        ELSE IF decrypted.err THEN "decrypt"
        ELSE IF envelope.err THEN "envelope"
        ELSE IF envelope.v.S = SignalEvent /\ ParseMeta(envelope.v.D).err THEN "meta"
        ELSE ""

\* C3 as stated: a request that fails in decoding, decryption, the envelope
\* parse or the metadata parse is answered 400 and dispatches nothing, and 401
\* is answered only to a verify-token mismatch.
C3_EarlyFailureIs400 ==
    \A r \in Reqs :
        /\ EarlyFailure(r) # "" => resp[r].status = 400 /\ NoDispatch(r)
        /\ resp[r].status = 401 => out[r].kind = "tokenerr"

\* C10: a request whose signal kind is not SignalEvent is answered 200 with
\* {"code":0}: no token check, no challenge, no dispatch, whatever d holds.
C10_OtherSignalIgnored ==
    \A r \in Reqs :
        (Classified(r) /\ msg[r].S # SignalEvent)
            => /\ out[r].kind = "ignored"
               /\ NoDispatch(r)
               /\ pc[r] \in {"respond", "done"}
               /\ pc[r] = "done" => resp[r] = GenericResponse

\* C10's case: a token is configured and d carries a wrong token and a challenge
C10_Witness ==
    \E r \in Reqs :
        /\ Classified(r)
        /\ msg[r].S # SignalEvent
        /\ verifyToken = "t1"
        /\ msg[r].D.kind = "object"
        /\ msg[r].D.verify_token = "t2"
        /\ msg[r].D.channel_type = WEBHOOK_CHALLENGE
        /\ msg[r].D.challenge # ""
        /\ resp[r] = GenericResponse

\* C10's case: d is not parseable as metadata
C10_WitnessUnparseable ==
    \E r \in Reqs :
        /\ Classified(r)
        /\ msg[r].S # SignalEvent
        /\ msg[r].D.kind = "nonobject"
        /\ resp[r] = GenericResponse

(***************************************************************************)
(* Properties of dispatch (Spec, FairSpec).                                *)
(***************************************************************************)
\* the handlers the calls of log registered for eventType, in order
RegisteredFor(log, eventType) ==
    LET calls == SelectSeq(log, LAMBDA c : c.eventType = eventType)
    IN  [i \in 1..Len(calls) |-> calls[i].handler]

\* the handlers registered for the type of request r's event when r took the
\* read lock
RegisteredAtSnapshot(r) == RegisteredFor(SubSeq(regLog, 1, snapAt[r]), out[r].type)

\* handleEvent has left its loop for request r
Dispatched(r) == out[r].kind = "event" /\ pc[r] \in {"respond", "done"}

\* the goroutines of request r that run entry i of its snapshot
TasksFor(r, i) == {k \in 1..Len(tasks[r]) : tasks[r][k].idx = i}

\* those of them whose call of the handler has begun
InvocationsOf(r, i) == {k \in TasksFor(r, i) : tasks[r][k].st # "spawned"}

\* the invocations of handler function h for request r
InvocationsOfHandler(r, h) ==
    {k \in 1..Len(tasks[r]) : tasks[r][k].st # "spawned" /\ snap[r][tasks[r][k].idx] = h}

Occurrences(handlers, h) == Cardinality({i \in 1..Len(handlers) : handlers[i] = h})

\* what C4 says of every state
EachRegisteredHandlerHasOneTask ==
    \A r \in Reqs :
        /\ \A i \in 1..Len(snap[r]) : Cardinality(InvocationsOf(r, i)) <= 1
        /\ Dispatched(r) =>
              /\ snap[r] = RegisteredAtSnapshot(r)
              /\ \A i \in 1..Len(snap[r]) : Cardinality(TasksFor(r, i)) = 1
              /\ \A k \in 1..Len(tasks[r]) : tasks[r][k].idx \in 1..Len(snap[r])

\* C4: once an event is dispatched, each handler registered for its type
\* before the snapshot has exactly one goroutine and no other handler has one;
\* a goroutine calls its handler at most once, and under fair scheduling every
\* goroutine started does call it.
C4_EachRegisteredHandlerOnce ==
    /\ []EachRegisteredHandlerHasOneTask
    /\ \A r \in Reqs, k \in TaskIds :
          IsTask(r, k, "spawned") ~> (k <= Len(tasks[r]) /\ tasks[r][k].st # "spawned")

\* C4's case: two handlers registered for the event's type both ran once
C4_Witness ==
    \E r \in Reqs :
        /\ pc[r] = "done"
        /\ out[r].type = 5
        /\ RegisteredAtSnapshot(r) = <<"h1", "h2">>
        /\ Cardinality(InvocationsOf(r, 1)) = 1
        /\ Cardinality(InvocationsOf(r, 2)) = 1
        /\ \A k \in 1..Len(tasks[r]) : tasks[r][k].st = "returned"

\* the registry is what the completed OnEvent calls made it
RegistryIsLog ==
    \A t \in EventTypes \cup DOMAIN eventHandlers :
        Get(eventHandlers, t) = RegisteredFor(regLog, t)

\* C5: after a handler has panicked the process lives on: every sibling
\* goroutine can go on, the request can finish its loop and respond and is
\* answered 200, the registry holds what was registered, and every dispatched
\* event has the snapshot of all handlers registered for its type.
C5_PanicIsIsolated ==
    \A r \in Reqs : \A k \in 1..Len(tasks[r]) :
        tasks[r][k].st = "panicked" =>
            /\ alive
            /\ \A j \in 1..Len(tasks[r]) :
                  /\ tasks[r][j].st = "spawned" => ENABLED Invoke(r, j)
                  /\ tasks[r][j].st = "running" => ENABLED Return(r, j)
                  /\ tasks[r][j].st = "registering" => ENABLED HandlerOnEventDone(r, j)
            /\ pc[r] = "spawn" => ENABLED Spawn(r)
            /\ pc[r] = "respond" => ENABLED Respond(r)
            /\ pc[r] = "done" => resp[r] = GenericResponse
            /\ RegistryIsLog
            /\ \A q \in Reqs :
                  /\ pc[q] = "rlock" /\ mu.writer = "none" => ENABLED RLock(q)
                  /\ Dispatched(q) => snap[q] = RegisteredAtSnapshot(q)

\* C5's case: a handler of request 1 panicked, its sibling returned, request 1
\* was answered 200, and request 2 of the same type ran both handlers again
C5_Witness ==
    /\ tasks[1] = <<[idx |-> 1, st |-> "panicked"], [idx |-> 2, st |-> "returned"]>>
    /\ resp[1] = GenericResponse
    /\ out[2].type = out[1].type
    /\ snap[2] = snap[1]
    /\ \A k \in 1..2 : IsTask(2, k, "returned")

\* C6: under fair scheduling of the requests, an event that reaches dispatch is
\* answered 200 with {"code":0}, whatever its handlers do.
C6_ResponseNeedsNoHandler ==
    \A r \in Reqs :
        (pc[r] = "rlock") ~> (pc[r] = "done" /\ resp[r] = GenericResponse)

\* C6's case: the request is answered while all its handlers are blocked
C6_Witness ==
    \E r \in Reqs :
        /\ resp[r] = GenericResponse
        /\ Len(tasks[r]) = 2
        /\ \A k \in 1..Len(tasks[r]) : tasks[r][k].st = "blocked"

\* C7 as stated: no handler function is invoked more than once for a request,
\* also when it is registered more than once for the event's type.
C7_AtMostOncePerFunction ==
    \A r \in Reqs : \A h \in Handlers : Cardinality(InvocationsOfHandler(r, h)) <= 1

\* C7 amended: delivery is at most once per registration: no entry of the
\* snapshot is invoked more than once for a request, so a handler function
\* registered n times for the event's type is invoked at most n times.
C7_AtMostOncePerRegistration ==
    \A r \in Reqs :
        /\ \A i \in 1..Len(snap[r]) : Cardinality(InvocationsOf(r, i)) <= 1
        /\ \A h \in Handlers :
              Cardinality(InvocationsOfHandler(r, h)) <= Occurrences(RegisteredAtSnapshot(r), h)

\* C7's case: a handler registered twice for the event's type is invoked twice
C7_Witness ==
    \E r \in Reqs :
        /\ RegisteredAtSnapshot(r) = <<"h1", "h1">>
        /\ Cardinality(InvocationsOfHandler(r, "h1")) = 2

\* C8 as stated: the invocation of a handler registered earlier begins before
\* the invocation of one registered later.
C8_InvokedInRegistrationOrder ==
    \A r \in Reqs : \A i, j \in 1..Len(tasks[r]) :
        (tasks[r][i].idx < tasks[r][j].idx /\ tasks[r][j].st # "spawned")
            => tasks[r][i].st # "spawned"

\* C8 amended: the goroutines of one event are started in registration order:
\* the k-th go statement starts the handler registered k-th for the type; in
\* which order their invocations begin is up to the scheduler.
C8_SpawnedInRegistrationOrder ==
    \A r \in Reqs :
        /\ \A k \in 1..Len(tasks[r]) : tasks[r][k].idx = k
        /\ pc[r] \in {"spawn", "respond", "done"} /\ out[r].kind = "event"
              => snap[r] = RegisteredAtSnapshot(r)

\* C8's case: h1 was registered before h2 and both goroutines are started
C8_Witness ==
    \E r \in Reqs :
        /\ RegisteredAtSnapshot(r) = <<"h1", "h2">>
        /\ Len(tasks[r]) = 2
        /\ snap[r][tasks[r][1].idx] = "h1"
        /\ snap[r][tasks[r][2].idx] = "h2"
        /\ tasks[r][1].st = "spawned"
        /\ tasks[r][2].st = "running"

\* C9: a request holds the read lock only for the snapshot copy: it holds it
\* only at the copy, it has released it before it starts a goroutine, and
\* the write lock is held by a handler only inside its own OnEvent call.
C9_NoLockAcrossHandlers ==
    /\ \A r \in Reqs :
          /\ r \in mu.readers <=> pc[r] = "snapshot"
          /\ tasks[r] # <<>> => r \notin mu.readers
    /\ mu.writer # "none" => mu.readers = {}
    /\ mu.writer = "task" <=>
          \E r \in Reqs, k \in TaskIds : IsTask(r, k, "registering")

\* C9's case: a handler runs while its request is still in the loop, lock-free
C9_Witness ==
    \E r \in Reqs :
        /\ pc[r] = "spawn"
        /\ IsTask(r, 1, "running")
        /\ mu = Unlocked

(***************************************************************************)
(* Further properties of the request pipeline (PipelineSpec).              *)
(***************************************************************************)
\* the event types of the completed OnEvent calls
TypesRegistered == {regLog[i].eventType : i \in 1..Len(regLog)}

\* C11: an authenticated, well-formed event whose type had no handler when the
\* snapshot was taken starts no goroutine and is answered 200 with {"code":0},
\* and the registry holds entries only for the types OnEvent was called with.
C11_UnregisteredTypeIs200 ==
    /\ \A r \in Reqs :
          (/\ out[r].kind = "event"
           /\ pc[r] \in {"spawn", "respond", "done"}
           /\ RegisteredAtSnapshot(r) = <<>>)
              => /\ NoDispatch(r)
                 /\ pc[r] # "spawn"
                 /\ pc[r] = "done" => resp[r] = GenericResponse
    /\ DOMAIN eventHandlers = TypesRegistered
    /\ RegistryIsLog

\* C11's case: handlers are registered for type 5 only and an event of type 6,
\* carrying the configured token, is answered
C11_Witness ==
    \E r \in Reqs :
        /\ verifyToken = "t1"
        /\ msg[r].D.verify_token = "t1"
        /\ out[r].kind = "event"
        /\ out[r].type = 6
        /\ DOMAIN eventHandlers = {5}
        /\ Len(eventHandlers[5]) = 2
        /\ snapAt[r] = 2
        /\ resp[r] = GenericResponse
        /\ tasks[r] = <<>>

\* request r is an event signal whose d parses as metadata and as an event
WellFormedEvent(r) ==
    /\ IsEventSignal(r)
    /\ \/ msg[r].D.kind = "null"
       \/ msg[r].D.kind = "object" /\ msg[r].D.typeOK

\* C12: with the empty verify token configured, every well-formed event signal
\* that is no challenge goes to dispatch and is answered 200 with {"code":0},
\* whatever verify_token it carries: when handleMessage has decided, it
\* decides the same with any other verify_token in the event's place.
C12_EmptyTokenAcceptsAll ==
    \A r \in Reqs :
        (verifyToken = "" /\ WellFormedEvent(r) /\ ~CarriesChallenge(r))
            => /\ out[r].kind = "event"
               /\ logged[r] = NoLog
               /\ pc[r] \in {"rlock", "snapshot", "spawn", "respond", "done"}
               /\ pc[r] = "done" => resp[r] = GenericResponse
               /\ Dispatched(r) =>
                     /\ snap[r] = RegisteredAtSnapshot(r)
                     /\ Len(tasks[r]) = Len(snap[r])
               /\ pc[r] = "rlock" =>
                     \A tok \in Tokens :
                         handleMessage([msg[r] EXCEPT !.D.verify_token = tok],
                                       verifyToken) = out[r]

\* C12's case: no token is configured, the event carries a token, and its
\* handler ran
C12_Witness ==
    \E r \in Reqs :
        /\ verifyToken = ""
        /\ WellFormedEvent(r)
        /\ msg[r].D.verify_token = "t2"
        /\ msg[r].D.channel_type = ChannelGroup
        /\ resp[r] = GenericResponse
        /\ Len(snap[r]) = 1
        /\ IsTask(r, 1, "returned")

\* C13: a request whose method is not POST is answered 405 at once: its body
\* is not read, decoded or decrypted, nothing is logged, and it is never
\* classified, authenticated, answered with a challenge or dispatched.
C13_NonPostIs405 ==
    \A r \in Reqs :
        (pc[r] # "idle" /\ req[r].method # "POST")
            => /\ pc[r] = "done"
               /\ resp[r] = ErrorResponse(405)
               /\ body[r] = NoBody
               /\ msg[r] = NoMsg
               /\ out[r] = NoOutcome
               /\ logged[r] = NoLog
               /\ NoDispatch(r)

\* C13's case: a GET whose body is a challenge, with a handler registered
C13_Witness ==
    \E r \in Reqs :
        /\ req[r].method = "GET"
        /\ req[r].body.text.d = AChallenge
        /\ eventHandlers # EmptyRegistry
        /\ resp[r].status = 405

\* a request that is not a POST and whose body cannot be read is answered 405
C13_WitnessUnreadable ==
    \E r \in Reqs :
        /\ req[r].method = "GET"
        /\ ~req[r].readOK
        /\ resp[r].status = 405

\* HandleRequest has called decodeRequestBody for request r
DecodeCalled(r) ==
    /\ pc[r] \notin {"idle", "decode"}
    /\ req[r].method = "POST"
    /\ req[r].readOK

\* decodeRequestBody failed for request r, and HandleRequest answered 400
DecodeFailed(r) ==
    /\ pc[r] = "done"
    /\ resp[r] = ErrorResponse(400)
    /\ logged[r].stage = "decode"
    /\ NoDispatch(r)

\* the body as decodeRequestBody returned it, while nothing replaced it
DecodeReturned(r, b) == logged[r].stage # "decode" /\ (pc[r] = "decrypt" => body[r] = b)

\* C14 as stated: decodeRequestBody fails for every Content-Encoding value
\* that is not exactly "", "identity", "gzip" or "deflate", and HandleRequest
\* answers 400; for "" and "identity" it returns the body unchanged.
C14_OnlyExactValues ==
    \A r \in Reqs :
        DecodeCalled(r) =>
            /\ req[r].encoding \notin {EncEmpty, EncIdentity, EncGzip, EncDeflate}
                  => DecodeFailed(r)
            /\ req[r].encoding \in {EncEmpty, EncIdentity}
                  => DecodeReturned(r, req[r].body)

\* C14 amended: the Content-Encoding value is compared after its surrounding
\* white space is trimmed and its letters are lowercased.  decodeRequestBody
\* fails with the unsupported-encoding error that names the value as received,
\* and HandleRequest answers 400, for every value whose trimmed, lowercased
\* form is not "", "identity", "gzip" or "deflate"; when that form is "" or
\* "identity" the body is returned unchanged; when it is "gzip" or "deflate"
\* the body is inflated and the call fails only on a stream that is not of
\* that format.
C14_OnlyNormalizedValues ==
    \A r \in Reqs :
        DecodeCalled(r) =>
            LET e == ToLower(TrimSpace(req[r].encoding)) IN
            /\ e \notin {EncEmpty, EncIdentity, EncGzip, EncDeflate}
                  => /\ DecodeFailed(r)
                     /\ logged[r] = Logged("decode", "unsupported", req[r].encoding)
            /\ e \in {EncEmpty, EncIdentity} => DecodeReturned(r, req[r].body)
            /\ e = EncGzip =>
                  IF req[r].body.frame = "gzip"
                  THEN DecodeReturned(r, [req[r].body EXCEPT !.frame = "raw"])
                  ELSE DecodeFailed(r) /\ logged[r].why = "gzip"
            /\ e = EncDeflate =>
                  IF req[r].body.frame = "zlib"
                  THEN DecodeReturned(r, [req[r].body EXCEPT !.frame = "raw"])
                  ELSE DecodeFailed(r) /\ logged[r].why = "zlib"

\* C14's case: a gzip body sent with Content-Encoding "GZIP" is dispatched
C14_Witness ==
    \E r \in Reqs :
        /\ req[r].encoding = EncGzipUpper
        /\ req[r].body.frame = "gzip"
        /\ body[r].frame = "raw"
        /\ out[r].kind = "event"
        /\ resp[r] = GenericResponse

\* the body of request r as decodeRequestBody returned it
DecodedBody(r) == decodeRequestBody(req[r].body, req[r].encoding).v

\* HandleRequest has called tryDecryptBody for request r
DecryptCalled(r) ==
    /\ DecodeCalled(r)
    /\ logged[r].stage # "decode"
    /\ pc[r] # "decrypt"

\* the decoded body of request r is no envelope with a non-empty encrypt field:
\* it is still compressed, not JSON, not an object, or its encrypt is no
\* string, is empty or absent
NotEncrypted(r) ==
    \/ DecodedBody(r).frame # "raw"
    \/ DecodedBody(r).text.json \in {"garbage", "scalar", "null"}
    \/ DecodedBody(r).encKind \in {"absent", "empty", "nonstring"}

\* C15: a body that is no encryption envelope, or whose encrypt field is empty
\* or absent, comes out of tryDecryptBody unchanged and without error, with a
\* key configured and without: the request goes on to the envelope parse with
\* that body, and there tryDecryptBody returns the same for every key.
C15_PlaintextPassesThrough ==
    \A r \in Reqs :
        (DecryptCalled(r) /\ NotEncrypted(r))
            => /\ body[r] = DecodedBody(r)
               /\ logged[r].stage # "decrypt"
               /\ pc[r] = "done" /\ resp[r].status = 400 => logged[r].stage = "envelope"
               /\ pc[r] = "parse" =>
                     \A k \in {NoKey, KeyA, KeyB} : tryDecryptBody(body[r], k) = Ok(body[r])

\* C15's case: with a key configured, a plaintext event is dispatched
C15_Witness ==
    \E r \in Reqs :
        /\ encryptKey = KeyA
        /\ req[r].body.encKind = "absent"
        /\ verifyToken = "t1"
        /\ out[r].kind = "event"
        /\ Len(tasks[r]) = 1
        /\ resp[r] = GenericResponse

\* with a key configured, a body that is not JSON reaches the envelope parse
C15_WitnessGarbage ==
    \E r \in Reqs :
        /\ encryptKey = KeyA
        /\ req[r].body = PlainBody(GarbagePlain)
        /\ logged[r].stage = "envelope"

\* the decoded body of request r is an envelope with a non-empty encrypt field
IsEncrypted(r) ==
    /\ DecodedBody(r).frame = "raw"
    /\ DecodedBody(r).text.json = "object"
    /\ DecodedBody(r).encKind = "cipher"

\* C16: with no encrypt key configured, a body that is an envelope with a
\* non-empty encrypt field fails in decryption with the missing-key error,
\* whatever the encrypt field holds (also text that is not base64, too short
\* or not block-aligned), and the request is answered 400: it is never
\* classified or dispatched.
C16_MissingKeyFirst ==
    \A r \in Reqs :
        (DecryptCalled(r) /\ IsEncrypted(r) /\ encryptKey = NoKey)
            => /\ pc[r] = "done"
               /\ resp[r] = ErrorResponse(400)
               /\ logged[r] = Logged("decrypt", "missingkey", <<>>)
               /\ body[r] = DecodedBody(r)
               /\ msg[r] = NoMsg
               /\ out[r] = NoOutcome
               /\ NoDispatch(r)

\* C16's case: no key is configured and the encrypt field is not base64
C16_Witness ==
    \E r \in Reqs :
        /\ encryptKey = NoKey
        /\ IsEncrypted(r)
        /\ ~req[r].body.cipher.outerB64
        /\ eventHandlers # EmptyRegistry
        /\ resp[r].status = 400
        /\ logged[r].why = "missingkey"

(***************************************************************************)
(* Properties of pkcs7Unpad (UnpadSpec).                                   *)
(***************************************************************************)
\* C17: for a non-empty buffer of whole blocks with final byte p, pkcs7Unpad
\* returns an error when p is 0, exceeds the block size 16 or the buffer
\* length, or one of the last p bytes is not p; otherwise it returns the first
\* len - p bytes and no error.
C17_UnpadChecksPadding ==
    (ret.done /\ call.fn = "pkcs7Unpad") =>
        LET buf == call.data
            n == Len(buf)
        IN  (n > 0 /\ n % 16 = 0) =>
                LET p == buf[n] IN
                IF p = 0 \/ p > 16 \/ p > n \/ \E i \in 1..p : buf[n - p + i] # p
                THEN ret.res.err
                ELSE /\ ~ret.res.err
                     /\ Len(ret.res.v) = n - p
                     /\ \A i \in 1..(n - p) : ret.res.v[i] = buf[i]

\* C17's case: the final byte is a valid length and a byte of the padding
\* before it differs
C17_Witness ==
    /\ ret.done
    /\ Len(call.data) = 32
    /\ call.data[32] = 2
    /\ call.data[31] = 0
    /\ ret.res.err

\* a whole block of padding is removed and the block before it is returned
C17_WitnessWholeBlock ==
    /\ ret.done
    /\ Len(call.data) = 32
    /\ call.data[32] = 16
    /\ ~ret.res.err
    /\ Len(ret.res.v) = 16

(***************************************************************************)
(* Properties of decryptWebhookPayload (DecryptSpec).                      *)
(***************************************************************************)
\* key k with zero bytes added on the right up to 32 bytes
ZeroPadded(k) == [i \in 1..32 |-> IF i <= Len(k) THEN k[i] ELSE 0]

\* the first 32 bytes of key k
FirstBytes(k) == [i \in 1..32 |-> k[i]]

\* the other member of key k's pair: k itself when k has 32 bytes
Twin(k) == IF Len(k) < 32 THEN ZeroPadded(k)
           ELSE IF Len(k) > 32 THEN FirstBytes(k)
           ELSE k

\* the call with key k decrypted as the call with k's twin does
DecryptsAsTwin ==
    decryptWebhookPayload(call.encrypted, Twin(call.encryptKey)) = ret.res

\* C18 as stated: normalization yields 32 bytes and every key shorter than 32
\* bytes decrypts every payload as its zero-padded form does, every longer key
\* as its first 32 bytes do.
C18_EveryKeyDecryptsAsTwin ==
    (ret.done /\ call.fn = "decryptWebhookPayload") =>
        /\ call.encryptKey # NoKey => Len(ret.keyBytes) = 32
        /\ DecryptsAsTwin

\* C18 amended: for every key that is not empty, normalization yields exactly
\* 32 bytes, the normalized key is the key's zero-padded form (shorter keys)
\* or its first 32 bytes (longer keys), normalizing it again changes nothing,
\* and the key decrypts every payload to the same result (plaintext or
\* error) as that form.  The empty key is no key: it fails with the
\* missing-key error, which its zero-padded form does not.
C18_ConfiguredKeyDecryptsAsTwin ==
    (ret.done /\ call.fn = "decryptWebhookPayload") =>
        IF call.encryptKey = NoKey
        THEN ret.res.err /\ ret.res.why = "missingkey"
        ELSE /\ Len(ret.keyBytes) = 32
             /\ ret.keyBytes = Twin(call.encryptKey)
             /\ NormalizeKey(ret.keyBytes) = ret.keyBytes
             /\ DecryptsAsTwin

\* C18's case: a payload encrypted under the zero-padded form of a 10-byte key
\* is decrypted with the 10-byte key
C18_Witness ==
    /\ ret.done
    /\ Len(call.encryptKey) = 10
    /\ call.encrypted.key = ZeroPadded(call.encryptKey)
    /\ ~ret.res.err
    /\ ret.res.v.text = EnvelopePlain(SignalEvent, AGroupEvent)

\* a payload encrypted under the first 32 bytes of a 40-byte key is decrypted
\* with the 40-byte key
C18_WitnessLongKey ==
    /\ ret.done
    /\ Len(call.encryptKey) = 40
    /\ call.encrypted.key = FirstBytes(call.encryptKey)
    /\ ~ret.res.err

(***************************************************************************)
(* The order of the stages (PipelineSpec).                                 *)
(***************************************************************************)
\* handleMessage or handleEvent has looked at request r: its signal kind was
\* inspected, its token compared, or a handler list read or goroutine started
Inspected(r) ==
    \/ out[r] # NoOutcome
    \/ pc[r] \in {"rlock", "snapshot", "spawn", "respond"}
    \/ snap[r] # <<>>
    \/ tasks[r] # <<>>
    \/ logged[r].stage = "message"
    \/ resp[r].status \in {200, 401}

\* what C19 says of every state
InspectedOnlyAfterDecodeDecrypt ==
    \A r \in Reqs :
        LET decoded == decodeRequestBody(req[r].body, req[r].encoding)
            decrypted == tryDecryptBody(decoded.v, encryptKey)
        IN  /\ Inspected(r) =>
                  /\ req[r].method = "POST" /\ req[r].readOK
                  /\ ~decoded.err
                  /\ ~decrypted.err
                  /\ body[r] = decrypted.v
                  /\ body[r].frame = "raw"
                  /\ body[r].encKind # "cipher"
                  /\ msg[r] = ParseEnvelope(body[r]).v
                  /\ logged[r].stage \in {"", "message"}
            /\ (\/ pc[r] \in {"idle", "decode", "decrypt", "parse"}
                \/ logged[r].stage \in {"read", "decode", "decrypt", "envelope"})
                  => ~Inspected(r)

\* the place of a stage in HandleRequest
StageRank(stage) ==
    CASE stage = "idle" -> 0
      [] stage = "decode" -> 1
      [] stage = "decrypt" -> 2
      [] stage = "parse" -> 3
      [] stage = "message" -> 4
      [] stage = "rlock" -> 5
      [] stage = "snapshot" -> 6
      [] stage = "spawn" -> 7
      [] stage = "respond" -> 8
      [] stage = "done" -> 9

\* a step of request r moves it to a later stage, or starts one more goroutine
StagesInOrder ==
    \A r \in Reqs :
        pc'[r] # pc[r] \/ tasks'[r] # tasks[r] \/ body'[r] # body[r]
            => \/ StageRank(pc'[r]) > StageRank(pc[r])
               \/ pc[r] = "spawn" /\ pc'[r] = "spawn"
               \/ pc'[r] = pc[r] /\ StageRank(pc[r]) >= 7 /\ body'[r] = body[r]

\* C19: the stages of a request occur in one order.  When the signal kind of
\* a request has been inspected, its token compared or its event dispatched,
\* transport decoding and decryption of the whole body have both succeeded
\* before and the envelope parsed is the decrypted body's; a request whose
\* decode or decrypt stage failed or has not finished was never inspected,
\* and no step takes a request back to an earlier stage.
C19_DecodeDecryptBeforeInspection ==
    /\ []InspectedOnlyAfterDecodeDecrypt
    /\ [][StagesInOrder]_vars

\* C19's case: an encrypted event was decrypted and then dispatched
C19_Witness ==
    \E r \in Reqs :
        /\ req[r].body.encKind = "cipher"
        /\ encryptKey = KeyA
        /\ body[r] = PlainBody(EnvelopePlain(SignalEvent, AGroupEvent))
        /\ verifyToken = "t1"
        /\ Len(tasks[r]) = 1
        /\ resp[r] = GenericResponse

\* an encrypted event whose decryption failed was answered 400, uninspected
C19_WitnessFailed ==
    \E r \in Reqs :
        /\ req[r].body.encKind = "cipher"
        /\ req[r].body.cipher.plain = EnvelopePlain(SignalEvent, AGroupEvent)
        /\ logged[r] = Logged("decrypt", "padding", <<>>)
        /\ eventHandlers # EmptyRegistry
        /\ resp[r].status = 400

(***************************************************************************)
(* Properties of the registry (Spec).                                      *)
(***************************************************************************)
\* this step is the append of a call OnEvent(t, h) that holds the write lock
IsAppendOf(t, h) ==
    /\ mu.writer # "none"
    /\ pending = [eventType |-> t, handler |-> h]
    /\ mu'.writer = "none"
    /\ DOMAIN eventHandlers' = DOMAIN eventHandlers \cup {t}
    /\ eventHandlers'[t] = Append(Get(eventHandlers, t), h)
    /\ \A u \in DOMAIN eventHandlers \ {t} : eventHandlers'[u] = eventHandlers[u]

\* a step leaves the registry as it is, or is the append of one OnEvent call
RegistryStep ==
    \/ eventHandlers' = eventHandlers
    \/ \E t \in EventTypes, h \in Handlers : IsAppendOf(t, h)

\* C20: the registry is empty after NewWebhookHandler, and in every
\* interleaving of OnEvent calls, requests and handlers each step either
\* leaves it unchanged or is the append of one call OnEvent(t, h): the list
\* of t grows by h at its end and the list of every other type stays as it is.
\* No step of a request or of a handler outside OnEvent changes it.
C20_RegistryAppendOnly ==
    /\ eventHandlers = EmptyRegistry
    /\ [][RegistryStep]_vars

\* C20's case: both types have a handler, registered while requests ran, and a
\* handler of a finished request has panicked
C20_Witness ==
    /\ DOMAIN eventHandlers = {5, 6}
    /\ eventHandlers[5] = <<"h1">>
    /\ eventHandlers[6] = <<"h2">>
    /\ \E r \in Reqs :
          /\ pc[r] = "done"
          /\ snapAt[r] = 1
          /\ IsTask(r, 1, "panicked")

\* a list of two handlers: the second call appended to the first
C20_WitnessSameType ==
    /\ DOMAIN eventHandlers = {5}
    /\ eventHandlers[5] = <<"h2", "h1">>
    /\ \E r \in Reqs : snap[r] = <<"h2">> /\ pc[r] = "done"

(***************************************************************************)
(* Properties of the snapshot and of OnEvent under concurrency (FairSpec,  *)
(* OnEventFairSpec).                                                       *)
(***************************************************************************)
\* what C21 says of every state
SnapshotIsPrivate ==
    /\ mu.writer # "none" => mu.readers = {}
    /\ \A r \in Reqs :
          \* while r holds the read lock no OnEvent call completes
          /\ pc[r] = "snapshot" => Len(regLog) = snapAt[r] /\ mu.writer = "none"
          \* the copy is the list of the completed calls at that moment
          /\ (out[r].kind = "event" /\ pc[r] \in {"spawn", "respond", "done"})
                => snap[r] = RegisteredAtSnapshot(r)
          \* every goroutine runs an entry of the copy, each entry at most one
          /\ \A k \in 1..Len(tasks[r]) : tasks[r][k].idx \in 1..Len(snap[r])
          /\ \A i \in 1..Len(snap[r]) : Cardinality(TasksFor(r, i)) <= 1
          /\ Dispatched(r) => \A i \in 1..Len(snap[r]) : Cardinality(TasksFor(r, i)) = 1

\* C21: the handlers that run for a request are exactly the list of its
\* event's type as the completed OnEvent calls had made it when the request
\* held the read lock: no call completes while the lock is held, a handler
\* registered later is not in the copy, a request that takes the lock after
\* the registration has it in its copy, and under fair scheduling every entry
\* of the copy is invoked.
C21_SnapshotIsPrivate ==
    /\ []SnapshotIsPrivate
    /\ \A r \in Reqs :
          (pc[r] = "rlock") ~>
              (Dispatched(r) /\ \A k \in 1..Len(tasks[r]) : tasks[r][k].st # "spawned")

\* C21's case: h2 was registered for the type after request 1 took its copy:
\* request 1 ran h1 only, the later request 2 ran h1 and h2
C21_Witness ==
    /\ out[1].type = out[2].type
    /\ snap[1] = <<"h1">>
    /\ snap[2] = <<"h1", "h2">>
    /\ pc[1] = "done" /\ pc[2] = "done"
    /\ Len(tasks[1]) = 1
    /\ \A k \in 1..2 : IsTask(2, k, "returned")
    /\ IsTask(1, 1, "returned")

C22_WitnessSameType ==
    \E r \in Reqs, k \in TaskIds :
        /\ IsTask(r, k, "registering")
        /\ pending.eventType = out[r].type
        /\ \E q \in Reqs : q # r /\ pc[q] = "rlock"

(***************************************************************************)
(* C23: one response per request, and handlers only for {"code":0}.        *)
(***************************************************************************)
Statuses == {200, 400, 401, 405}

\* the request has written its response
Responded(r) == resp[r] # NoResponse

\* the request started at least one handler goroutine
SpawnedHandlers(r) == tasks[r] # <<>>

ResponseAndHandlers ==
    \A r \in Reqs :
        /\ Responded(r) <=> pc[r] = "done"
        /\ Responded(r) => resp[r].status \in Statuses
        /\ SpawnedHandlers(r) =>
              /\ out[r].kind = "event"
              /\ pc[r] \in {"spawn", "respond", "done"}
              /\ Responded(r) => resp[r] = GenericResponse
        /\ Responded(r) /\ (resp[r].status # 200 \/ resp[r].kind = "challenge") =>
              ~SpawnedHandlers(r)

\* the response is written once, and no handler is started after it
RespondsOnce ==
    \A r \in Reqs :
        /\ resp'[r] # resp[r] => ~Responded(r) /\ pc'[r] = "done"
        /\ Responded(r) => Len(tasks'[r]) = Len(tasks[r])

\* C23: every request ends with exactly one response, whose status is 200, 400,
\* 401 or 405; a request that started handler goroutines is an event and is
\* answered 200 with {"code":0}, and a request answered 400, 401, 405 or with
\* a challenge body has started none.
C23_OneResponseHandlersOnlyForCode0 ==
    []ResponseAndHandlers /\ [][RespondsOnce]_vars

\* C23's case: an event with two handlers registered was answered {"code":0}
\* after both goroutines were started
C23_Witness ==
    /\ pc[1] = "done"
    /\ resp[1] = GenericResponse
    /\ Len(tasks[1]) = 2

\* a challenge whose d carries the type of a registered handler was answered
\* with the challenge body and started no handler
C23_WitnessChallenge ==
    /\ pc[1] = "done"
    /\ resp[1].kind = "challenge"
    /\ msg[1].D.typeOK
    /\ Get(eventHandlers, msg[1].D.type) # <<>>
    /\ tasks[1] = <<>>

\* an event with a wrong token was answered 401 while a handler of its type
\* was registered
C23_WitnessRejected ==
    /\ pc[1] = "done"
    /\ resp[1] = ErrorResponse(401)
    /\ out[1].kind = "tokenerr"
    /\ msg[1].D.kind = "object"
    /\ Get(eventHandlers, msg[1].D.type) # <<>>
    /\ tasks[1] = <<>>

(***************************************************************************)
(* C24: half a challenge is an ordinary event.                             *)
(***************************************************************************)
\* request r is an event signal whose d has the channel type of a challenge
\* and no challenge, or a challenge and another channel type
HalfChallenge(r) ==
    /\ IsEventSignal(r)
    /\ msg[r].D.kind = "object"
    /\ \/ /\ msg[r].D.channel_type \in {WEBHOOK_CHALLENGE, ChallengeLower}
          /\ msg[r].D.challenge = ""
       \/ /\ msg[r].D.channel_type \notin {WEBHOOK_CHALLENGE, ChallengeLower}
          /\ msg[r].D.challenge # ""

\* every handler of the snapshot has its goroutine, in order
DispatchedToSnapshot(r) ==
    /\ snap[r] = RegisteredAtSnapshot(r)
    /\ Len(tasks[r]) = Len(snap[r])
    /\ \A k \in 1..Len(tasks[r]) : tasks[r][k].idx = k

\* C24: an event signal with channel_type WEBHOOK_CHALLENGE and an empty
\* challenge, or with a challenge and another channel_type, is never answered
\* as a handshake.  Its token is verified: with a wrong token it is answered
\* 401 and nothing is dispatched; with an accepted token and a d that parses
\* as an event it is dispatched to the handlers registered for its type and
\* answered 200 with {"code":0}.
C24_HalfChallengeIsEvent ==
    \A r \in Reqs :
        HalfChallenge(r) =>
            /\ out[r].kind # "challenge"
            /\ resp[r].kind # "challenge"
            /\ ~TokenAccepted(r) =>
                  /\ out[r].kind = "tokenerr"
                  /\ tasks[r] = <<>>
                  /\ pc[r] = "done" => resp[r] = ErrorResponse(401)
            /\ TokenAccepted(r) /\ msg[r].D.typeOK =>
                  /\ out[r] = Outcome("event", "", msg[r].D.type)
                  /\ Dispatched(r) => DispatchedToSnapshot(r)
                  /\ pc[r] = "done" => resp[r] = GenericResponse

\* C24's case: a request with a challenge and the channel type GROUP was
\* dispatched to the two handlers of its type and answered {"code":0}
C24_Witness ==
    /\ HalfChallenge(1)
    /\ msg[1].D.challenge # ""
    /\ pc[1] = "done"
    /\ resp[1] = GenericResponse
    /\ Len(tasks[1]) = 2

\* a request with channel_type webhook_challenge and no challenge was
\* dispatched to the handler of its type
C24_WitnessEmptyChallenge ==
    /\ HalfChallenge(1)
    /\ msg[1].D.channel_type = ChallengeLower
    /\ pc[1] = "done"
    /\ resp[1] = GenericResponse
    /\ Len(tasks[1]) >= 1

\* half a challenge with a wrong token was answered 401
C24_WitnessRejected ==
    /\ HalfChallenge(1)
    /\ ~TokenAccepted(1)
    /\ pc[1] = "done"
    /\ Get(eventHandlers, msg[1].D.type) # <<>>

(***************************************************************************)
(* C25: the validations of decryptWebhookPayload, in order.                *)
(***************************************************************************)
\* the first of the four defects of a payload, in the order outer base64,
\* length, inner base64, alignment
FirstDefect(c) ==
    IF ~c.outerB64 THEN "outerbase64"
    ELSE IF ~c.long THEN "length"
    ELSE IF ~c.innerB64 THEN "innerbase64"
    ELSE IF ~c.aligned THEN "alignment"
    ELSE "none"

\* the call returned from line 761 or 763: AES-CBC has run
CipherReached == ~ret.res.err \/ ret.res.why = "padding"

\* the four defects of a payload
Defects(c) ==
    {n \in 1..4 : ~<<c.outerB64, c.long, c.innerB64, c.aligned>>[n]}

\* C25: a call of decryptWebhookPayload with a key returns, for a payload with
\* malformed outer base64, of 16 bytes or fewer, with malformed inner base64
\* or with a ciphertext that is no multiple of 16 bytes, the error of the first
\* of these defects and no plaintext, whatever the later checks would find;
\* AES-CBC and the unpadding run only for a payload that has none of them.
C25_ValidationsInOrder ==
    ret.done /\ call.encryptKey # NoKey =>
        /\ FirstDefect(call.encrypted) # "none" =>
              ret.res = Error(FirstDefect(call.encrypted), <<>>)
        /\ FirstDefect(call.encrypted) = "none" => CipherReached
        /\ CipherReached => Defects(call.encrypted) = {}

\* C25's case: a payload of 16 bytes or fewer, whose later checks would fail
\* as well, was rejected for its length under the key that encrypted it
C25_Witness ==
    /\ ret.done
    /\ call.encryptKey = KeyA
    /\ Defects(call.encrypted) = {2, 3, 4}
    /\ call.encrypted.padOK
    /\ ret.res = Error("length", <<>>)

\* a payload whose only defect is the length of the ciphertext was rejected
C25_WitnessMisaligned ==
    /\ ret.done
    /\ call.encryptKey = KeyA
    /\ Defects(call.encrypted) = {4}
    /\ call.encrypted.padOK
    /\ ret.res = Error("alignment", <<>>)

\* a payload without defect was decrypted
C25_WitnessDecrypted ==
    /\ ret.done
    /\ call.encrypted \in Defective
    /\ Defects(call.encrypted) = {}
    /\ ~ret.res.err
====
